---- MODULE Spec2Model ----
(***************************************************************************)
(* pulgacpp: the SafeInt template (core/safe_int.hpp), the 64-bit overflow *)
(* primitives (core/overflow.hpp), the width aliases that instantiate      *)
(* them, and the Optional and Result carriers.                             *)
(*                                                                         *)
(* Every operation of SafeInt is a function of the stored values of the    *)
(* receiver and of its operand, of the template arguments of the alias,    *)
(* and of the build (the preprocessor cascade of overflow.hpp, whether     *)
(* __int128 exists, and what the build does with undefined behaviour).     *)
(*                                                                         *)
(* Widths.  TLC integers are 32 bits wide, so an alias is evaluated at its *)
(* source widths divided by the scale `sc` of its descriptor: the widths   *)
(* of U, of W, of int (integer promotion) and of the source types of       *)
(* from() keep the ratios they have in the source, which is all the code   *)
(* depends on.  The nominal width (8, 16, 32, 64, 128) is kept in the      *)
(* descriptor and is what `Bits == 64` tests.  All native arithmetic is    *)
(* reduced modulo 2^width of the type it is evaluated in.                  *)
(***************************************************************************)
EXTENDS Integers, FiniteSets, Sequences, TLC

VARIABLES build, ty, x, y, op, arg, res

vars == <<build, ty, x, y, op, arg, res>>

\* How far from each boundary value the operands are drawn.
Edge == 1

\* The payloads of Optional and Result are 0 .. MaxPayload.
MaxPayload == 2

(***************************************************************************)
(* Native integer types and the language rules the code relies on          *)
(***************************************************************************)

RECURSIVE Pow2(_)
Pow2(n) == IF n = 0 THEN 1 ELSE 2 * Pow2(n - 1)

Abs(n) == IF n < 0 THEN -n ELSE n

\* A native integer type: its width in bits and its signedness.
IntT(bits, sg) == [bits |-> bits, sg |-> sg]

\* std::numeric_limits<t>::min() / max()
TMin(t) == IF t.sg THEN -Pow2(t.bits - 1) ELSE 0
TMax(t) == IF t.sg THEN Pow2(t.bits - 1) - 1 ELSE Pow2(t.bits) - 1

InRange(t, n) == TMin(t) <= n /\ n <= TMax(t)

\* static_cast<t>(n): the value of t congruent to n modulo 2^bits.
Cast(t, n) ==
  LET m == n % Pow2(t.bits)
  IN  IF t.sg /\ m >= Pow2(t.bits - 1) THEN m - Pow2(t.bits) ELSE m

\* Integer promotion: a type narrower than int is evaluated as int.
Promote(t, intBits) == IF t.bits < intBits THEN IntT(intBits, TRUE) ELSE t

\* The value of a native arithmetic expression whose exact result is e,
\* evaluated in type t after promotion: unsigned arithmetic is modular,
\* signed arithmetic that leaves the range is undefined behaviour.
Native(t, intBits, e) ==
  LET p == Promote(t, intBits)
  IN  [v |-> Cast(p, e), ub |-> p.sg /\ ~InRange(p, e)]

\* C++ integer division and remainder truncate toward zero.
TruncDiv(a, b) ==
  LET q == Abs(a) \div Abs(b)
  IN  IF (a < 0) = (b < 0) THEN q ELSE -q

TruncRem(a, b) == a - b * TruncDiv(a, b)

(***************************************************************************)
(* Results                                                                 *)
(***************************************************************************)

None == [tag |-> "None"]
Some(v) == [tag |-> "Some", v |-> v]
\* A SafeInt, or a payload, returned by value.
Val(v) == [tag |-> "Val", v |-> v]
\* std::pair<SafeInt, bool>
Pair(v, f) == [tag |-> "Pair", first |-> v, second |-> f]
\* panic(message): the process is terminated, nothing is returned.
Panic == [tag |-> "Panic"]
\* The evaluation hit undefined behaviour in a build that does not wrap:
\* no value is returned.
Trap == [tag |-> "Trap"]
NoRes == [tag |-> "NoRes"]
NoArg == [tag |-> "NoArg"]

(***************************************************************************)
(* The build                                                               *)
(***************************************************************************)

\* builtin: __has_builtin(__builtin_*_overflow); msvc: _MSC_VER without
\* clang; int128: __SIZEOF_INT128__; ub: what signed overflow and
\* INT_MIN % -1 do ("wraps": the two's-complement machine result,
\* "traps": a sanitizer or -ftrapv abort, the division fault of x86, or the
\* rejection of the constant expression).
Builds ==
  { b \in [builtin : BOOLEAN, msvc : BOOLEAN, int128 : BOOLEAN,
           ub : {"wraps", "traps"}] :
      ~(b.msvc /\ b.int128) /\ ~(b.msvc /\ b.builtin) }

(***************************************************************************)
(* The aliases                                                             *)
(***************************************************************************)

i8 == [name |-> "i8", bits |-> 8, wbits |-> 16, sg |-> TRUE, sc |-> 2]
u8 == [name |-> "u8", bits |-> 8, wbits |-> 16, sg |-> FALSE, sc |-> 2]
i16 == [name |-> "i16", bits |-> 16, wbits |-> 32, sg |-> TRUE, sc |-> 4]
i32 == [name |-> "i32", bits |-> 32, wbits |-> 64, sg |-> TRUE, sc |-> 4]
u32 == [name |-> "u32", bits |-> 32, wbits |-> 64, sg |-> FALSE, sc |-> 4]
i64(b) ==
  [name |-> "i64", bits |-> 64, wbits |-> IF b.int128 THEN 128 ELSE 64,
   sg |-> TRUE, sc |-> 8]
u64(b) ==
  [name |-> "u64", bits |-> 64, wbits |-> IF b.int128 THEN 128 ELSE 64,
   sg |-> FALSE, sc |-> 8]

Aliases(b) == {i8, u8, i16, i32, u32, i64(b), u64(b)}

\* underlying_type, wider_type, unsigned_type and int, at the alias's scale
U(T) == IntT(T.bits \div T.sc, T.sg)
W(T) == IntT(T.wbits \div T.sc, T.sg)
UnsignedT(T) == IntT(T.bits \div T.sc, FALSE)
IntBits(T) == 32 \div T.sc

MIN(T) == TMin(U(T))
MAX(T) == TMax(U(T))

\* The native integer types from() is called with: std::int8_t ...
\* std::uint64_t, those whose scaled width TLC can hold.
SrcTypes(T) ==
  { IntT(n \div T.sc, s) : n \in {m \in {8, 16, 32, 64} : m \div T.sc <= 16},
                           s \in BOOLEAN }

(***************************************************************************)
(* Construction                                                            *)
(***************************************************************************)

\* SafeInt::from<T>(value)
from(T, S, value) ==
  LET wide_value == Cast(W(T), value)
  IN  IF wide_value < Cast(W(T), MIN(T)) \/ wide_value > Cast(W(T), MAX(T))
      THEN None
      ELSE Some(Cast(U(T), value))

\* SafeInt::saturating_from<T>(value)
saturating_from(T, S, value) ==
  LET wide_value == Cast(W(T), value)
  IN  IF wide_value < Cast(W(T), MIN(T)) THEN Val(MIN(T))
      ELSE IF wide_value > Cast(W(T), MAX(T)) THEN Val(MAX(T))
      ELSE Val(Cast(U(T), value))

(***************************************************************************)
(* Conversions                                                             *)
(*                                                                         *)
(* A conversion involves two types, so all of them are evaluated at one    *)
(* scale: every width (of the aliases, of the native types and of int) is  *)
(* its source width divided by ConvScale.                                  *)
(***************************************************************************)

ConvScale == 4

\* `typename T::underlying_type` and int at the conversion scale
underlying_type(T) == IntT(T.bits \div ConvScale, T.sg)
ConvInt == 32 \div ConvScale

\* std::make_unsigned_t<t>
make_unsigned_t(t) == IntT(t.bits, FALSE)

\* std::int8_t ... std::uint64_t
NativeTypes ==
  { IntT(n \div ConvScale, s) : n \in {8, 16, 32, 64}, s \in BOOLEAN }

\* The usual arithmetic conversions: the type in which a binary operator on
\* operands of types a and b is evaluated.
Common(a, b) ==
  LET pa == Promote(a, ConvInt)
      pb == Promote(b, ConvInt)
      u == IF pa.sg THEN pb ELSE pa
      g == IF pa.sg THEN pa ELSE pb
  IN  IF pa.sg = pb.sg THEN (IF pa.bits >= pb.bits THEN pa ELSE pb)
      ELSE IF u.bits >= g.bits THEN u ELSE g

\* `l < r` for l of type a and r of type b (`l > r` is `r < l`)
Less(a, l, b, r) == Cast(Common(a, b), l) < Cast(Common(a, b), r)

\* SafeInt::to<T>() of the value v of alias S
to(S, T, v) ==
  LET u == underlying_type(S)
      mu == make_unsigned_t(u)
  IN  IF T.sg
      THEN IF Less(u, v, T, TMin(T)) \/ Less(T, TMax(T), u, v)
           THEN None
           ELSE Some(Cast(T, v))
      ELSE IF S.sg /\ Less(u, v, IntT(ConvInt, TRUE), 0) THEN None
           ELSE IF Less(T, TMax(T), mu, Cast(mu, v)) THEN None
           ELSE Some(Cast(T, v))

\* SafeInt::as<T>()
as(S, T, v) == Val(Cast(T, v))

\* `requires is_safe_int_v<Target> && (Target::BITS >= BITS)`
widen_accepts(S, Target) == Target.bits >= S.bits

\* SafeInt::widen<Target>()
widen(S, Target, v) == Val(Cast(underlying_type(Target), v))

\* SafeInt::narrow<Target>()
narrow(S, Target, v) ==
  LET u == underlying_type(S)
      mu == make_unsigned_t(u)
      t == underlying_type(Target)
  IN  IF ~t.sg /\ S.sg /\ v < 0 THEN None
      ELSE IF t.sg /\ u.sg
           THEN IF v < Cast(u, TMin(t)) \/ v > Cast(u, TMax(t))
                THEN None
                ELSE Some(Cast(t, v))
      ELSE IF ~t.sg /\ ~u.sg
           THEN IF v > Cast(u, TMax(t)) THEN None ELSE Some(Cast(t, v))
      ELSE IF t.sg /\ ~u.sg
           THEN IF v > Cast(u, TMax(t)) THEN None ELSE Some(Cast(t, v))
      ELSE IF Cast(mu, v) > Cast(mu, TMax(t)) THEN None ELSE Some(Cast(t, v))

\* A cast that clamps to the range of the target.
cast_clamped(S, Target, v) ==
  LET t == underlying_type(Target)
  IN  Val(IF v < TMin(t) THEN TMin(t) ELSE IF v > TMax(t) THEN TMax(t) ELSE v)

\* SafeInt::cast<Target>()
cast(S, Target, v) == Val(Cast(underlying_type(Target), v))

(***************************************************************************)
(* Literal suffixes, at the conversion scale                                *)
(***************************************************************************)

\* unsigned long long
ULongLong == IntT(64 \div ConvScale, FALSE)

\* A suffix operator that never panics.
literal_unchecked(T, checked, value) == Val(Cast(underlying_type(T), value))

\* operator""_<alias>(unsigned long long value); checked: the operator
\* contains the range test.
literal(T, checked, value) ==
  IF checked /\ value > Cast(ULongLong, TMax(underlying_type(T)))
  THEN Panic
  ELSE Val(Cast(underlying_type(T), value))

(***************************************************************************)
(* Overflow primitives (core/overflow.hpp)                                 *)
(***************************************************************************)

\* std::int64_t, std::uint64_t, __int128, unsigned __int128 at the scale of
\* the 64-bit aliases
Int64T == IntT(64 \div 8, TRUE)
UInt64T == IntT(64 \div 8, FALSE)
Int128T == IntT(128 \div 8, TRUE)
UInt128T == IntT(128 \div 8, FALSE)

INT64_MIN == TMin(Int64T)
INT64_MAX == TMax(Int64T)
UINT64_MAX == TMax(UInt64T)

\* Bitwise operators on the two's-complement pattern of a native type.
RECURSIVE UXor(_, _)
UXor(a, b) ==
  IF a = 0 THEN b
  ELSE IF b = 0 THEN a
  ELSE (((a % 2) + (b % 2)) % 2) + 2 * UXor(a \div 2, b \div 2)

RECURSIVE UAnd(_, _)
UAnd(a, b) ==
  IF a = 0 \/ b = 0 THEN 0
  ELSE (a % 2) * (b % 2) + 2 * UAnd(a \div 2, b \div 2)

BitXor(t, a, b) ==
  Cast(t, UXor(Cast(IntT(t.bits, FALSE), a), Cast(IntT(t.bits, FALSE), b)))

BitAnd(t, a, b) ==
  Cast(t, UAnd(Cast(IntT(t.bits, FALSE), a), Cast(IntT(t.bits, FALSE), b)))

\* The branch of the #if cascade a primitive compiles to.
Path(B) ==
  IF B.builtin THEN "builtin"
  ELSE IF B.msvc THEN "msvc"
  ELSE IF B.int128 THEN "int128"
  ELSE "portable"

\* What a primitive returns; ub: the evaluation of a native signed
\* expression left the range of its type.
Prim(result, overflow, ub) ==
  [result |-> result, overflow |-> overflow, ub |-> ub]

\* Signed add: the sign identity of the MSVC branch and of the last resort.
SignAdd(a, b) ==
  LET result == Cast(Int64T, Cast(UInt64T, Cast(UInt64T, a) + Cast(UInt64T, b)))
  IN  Prim(result,
           BitAnd(Int64T, BitXor(Int64T, a, result),
                          BitXor(Int64T, b, result)) < 0,
           FALSE)

checked_add_i64(B, a, b) ==
  CASE Path(B) = "builtin" ->
         Prim(Cast(Int64T, a + b), ~InRange(Int64T, a + b), FALSE)
    [] Path(B) = "msvc" -> SignAdd(a, b)
    [] Path(B) = "int128" ->
         LET wide == Cast(Int128T, a + b)
         IN  Prim(Cast(Int64T, wide), wide < INT64_MIN \/ wide > INT64_MAX,
                  FALSE)
    [] OTHER -> SignAdd(a, b)

\* Signed sub: the sign identity of the MSVC branch and of the last resort.
SignSub(a, b) ==
  LET result == Cast(Int64T, Cast(UInt64T, Cast(UInt64T, a) - Cast(UInt64T, b)))
  IN  Prim(result,
           BitAnd(Int64T, BitXor(Int64T, a, b),
                          BitXor(Int64T, a, result)) < 0,
           FALSE)

checked_sub_i64(B, a, b) ==
  CASE Path(B) = "builtin" ->
         Prim(Cast(Int64T, a - b), ~InRange(Int64T, a - b), FALSE)
    [] Path(B) = "msvc" -> SignSub(a, b)
    [] Path(B) = "int128" ->
         LET wide == Cast(Int128T, a - b)
         IN  Prim(Cast(Int64T, wide), wide < INT64_MIN \/ wide > INT64_MAX,
                  FALSE)
    [] OTHER -> SignSub(a, b)

\* __mulh / __umulh: the high 64 bits of the 128-bit product.
MulHigh(a, b) == (a * b - Cast(UInt64T, a * b)) \div Pow2(UInt64T.bits)

checked_mul_i64(B, a, b) ==
  CASE Path(B) = "builtin" ->
         Prim(Cast(Int64T, a * b), ~InRange(Int64T, a * b), FALSE)
    [] Path(B) = "msvc" ->
         LET result == Cast(Int64T, a * b)
             high == MulHigh(a, b)
         IN  Prim(result, high # (IF result < 0 THEN -1 ELSE 0),
                  ~InRange(Int64T, a * b))
    [] Path(B) = "int128" ->
         LET wide == Cast(Int128T, a * b)
         IN  Prim(Cast(Int64T, wide), wide < INT64_MIN \/ wide > INT64_MAX,
                  FALSE)
    [] OTHER ->
         LET result == Cast(Int64T, a * b)
             overflow ==
               IF a # 0
               THEN IF a = -1 /\ b = INT64_MIN THEN TRUE
                    ELSE IF b = -1 /\ a = INT64_MIN THEN TRUE
                    ELSE TruncDiv(result, a) # b
               ELSE FALSE
         IN  Prim(result, overflow, ~InRange(Int64T, a * b))

checked_add_u64(B, a, b) ==
  CASE Path(B) = "builtin" ->
         Prim(Cast(UInt64T, a + b), ~InRange(UInt64T, a + b), FALSE)
    [] Path(B) = "msvc" ->
         Prim(Cast(UInt64T, a + b), (a + b) \div Pow2(UInt64T.bits) # 0, FALSE)
    [] Path(B) = "int128" ->
         LET wide == Cast(UInt128T, a + b)
         IN  Prim(Cast(UInt64T, wide), wide > UINT64_MAX, FALSE)
    [] OTHER ->
         LET result == Cast(UInt64T, a + b)
         IN  Prim(result, result < a, FALSE)

checked_sub_u64(B, a, b) ==
  CASE Path(B) = "builtin" ->
         Prim(Cast(UInt64T, a - b), ~InRange(UInt64T, a - b), FALSE)
    [] Path(B) = "msvc" ->
         Prim(Cast(UInt64T, a - b), a < b, FALSE)
    [] Path(B) = "int128" ->
         Prim(Cast(UInt64T, Cast(UInt64T, a - b)), b > a, FALSE)
    [] OTHER ->
         Prim(Cast(UInt64T, a - b), b > a, FALSE)

checked_mul_u64(B, a, b) ==
  CASE Path(B) = "builtin" ->
         Prim(Cast(UInt64T, a * b), ~InRange(UInt64T, a * b), FALSE)
    [] Path(B) = "msvc" ->
         Prim(Cast(UInt64T, a * b), MulHigh(a, b) # 0, FALSE)
    [] Path(B) = "int128" ->
         LET wide == Cast(UInt128T, a * b)
         IN  Prim(Cast(UInt64T, wide), wide > UINT64_MAX, FALSE)
    [] OTHER ->
         LET result == Cast(UInt64T, a * b)
         IN  Prim(result, a # 0 /\ (result \div a) # b, FALSE)

(***************************************************************************)
(* SafeInt arithmetic (core/safe_int.hpp)                                  *)
(***************************************************************************)

needs_intrinsic_overflow_v(T) == T.bits = T.wbits

\* `needs_intrinsic_overflow_v<underlying_type, wider_type> && Bits == 64`
Intrinsic(T) == needs_intrinsic_overflow_v(T) /\ T.bits = 64

\* `wider_type result = static_cast<wider_type>(..) op static_cast<wider_type>(..)`
\* for the exact value e of the right-hand side.
Wide(T, e) ==
  LET n == Native(W(T), IntBits(T), e)
  IN  [result |-> Cast(W(T), n.v), ub |-> n.ub]

\* `result < static_cast<wider_type>(MIN)`, `result > static_cast<wider_type>(MAX)`
BelowMin(T, result) == result < Cast(W(T), MIN(T))
AboveMax(T, result) == result > Cast(W(T), MAX(T))

\* What the caller observes: the returned value, or no value at all when
\* the evaluation was undefined and the build traps.
Ret(B, ub, r) == IF ub /\ B.ub = "traps" THEN Trap ELSE r

CheckedWide(B, T, e) ==
  LET w == Wide(T, e)
  IN  Ret(B, w.ub,
          IF BelowMin(T, w.result) \/ AboveMax(T, w.result)
          THEN None
          ELSE Some(Cast(U(T), w.result)))

CheckedPrim(B, p) == Ret(B, p.ub, IF p.overflow THEN None ELSE Some(p.result))

checked_add(B, T, a, r) ==
  IF Intrinsic(T)
  THEN IF T.sg THEN CheckedPrim(B, checked_add_i64(B, a, r))
               ELSE CheckedPrim(B, checked_add_u64(B, a, r))
  ELSE CheckedWide(B, T, a + r)

checked_sub(B, T, a, r) ==
  IF Intrinsic(T)
  THEN IF T.sg THEN CheckedPrim(B, checked_sub_i64(B, a, r))
               ELSE CheckedPrim(B, checked_sub_u64(B, a, r))
  ELSE CheckedWide(B, T, a - r)

checked_mul(B, T, a, r) ==
  IF Intrinsic(T)
  THEN IF T.sg THEN CheckedPrim(B, checked_mul_i64(B, a, r))
               ELSE CheckedPrim(B, checked_mul_u64(B, a, r))
  ELSE CheckedWide(B, T, a * r)

\* checked_div without the MIN / -1 guard.
checked_div_noguard(B, T, a, r) ==
  IF r = 0 THEN None
  ELSE LET n == Native(U(T), IntBits(T), TruncDiv(a, r))
       IN  Ret(B, n.ub, Some(Cast(U(T), n.v)))

checked_div(B, T, a, r) ==
  IF r = 0 THEN None
  ELSE IF T.sg /\ a = MIN(T) /\ r = Cast(U(T), -1) THEN None
  ELSE LET n == Native(U(T), IntBits(T), TruncDiv(a, r))
       IN  Ret(B, n.ub, Some(Cast(U(T), n.v)))

\* a % b is undefined when the quotient a / b is not representable.
checked_rem(B, T, a, r) ==
  IF r = 0 THEN None
  ELSE LET q == Native(U(T), IntBits(T), TruncDiv(a, r))
           n == Native(U(T), IntBits(T), TruncRem(a, r))
       IN  Ret(B, q.ub, Some(Cast(U(T), n.v)))

\* checked_neg without the MIN guard.
checked_neg_noguard(B, T, a) ==
  LET n == Native(U(T), IntBits(T), -a)
  IN  Ret(B, n.ub, Some(Cast(U(T), n.v)))

\* requires IsSigned
checked_neg(B, T, a) ==
  IF a = MIN(T) THEN None
  ELSE LET n == Native(U(T), IntBits(T), -a)
       IN  Ret(B, n.ub, Some(Cast(U(T), n.v)))

\* requires IsSigned
checked_abs(B, T, a) ==
  IF a = MIN(T) THEN None
  ELSE LET n == Native(U(T), IntBits(T), IF a < 0 THEN -a ELSE a)
       IN  Ret(B, n.ub, Some(Cast(U(T), n.v)))

SaturatingWide(B, T, e) ==
  LET w == Wide(T, e)
  IN  Ret(B, w.ub,
          IF BelowMin(T, w.result) THEN Val(MIN(T))
          ELSE IF AboveMax(T, w.result) THEN Val(MAX(T))
          ELSE Val(Cast(U(T), w.result)))

saturating_add(B, T, a, r) ==
  IF Intrinsic(T)
  THEN IF T.sg
       THEN LET p == checked_add_i64(B, a, r)
            IN  Ret(B, p.ub,
                    IF p.overflow
                    THEN Val(IF a > 0 /\ r > 0 THEN MAX(T) ELSE MIN(T))
                    ELSE Val(p.result))
       ELSE LET p == checked_add_u64(B, a, r)
            IN  Ret(B, p.ub, IF p.overflow THEN Val(MAX(T)) ELSE Val(p.result))
  ELSE SaturatingWide(B, T, a + r)

saturating_sub(B, T, a, r) ==
  IF Intrinsic(T)
  THEN IF T.sg
       THEN LET p == checked_sub_i64(B, a, r)
            IN  Ret(B, p.ub,
                    IF p.overflow
                    THEN Val(IF a > 0 /\ r < 0 THEN MAX(T) ELSE MIN(T))
                    ELSE Val(p.result))
       ELSE LET p == checked_sub_u64(B, a, r)
            IN  Ret(B, p.ub, IF p.overflow THEN Val(MIN(T)) ELSE Val(p.result))
  ELSE SaturatingWide(B, T, a - r)

saturating_mul(B, T, a, r) ==
  IF Intrinsic(T)
  THEN IF T.sg
       THEN LET p == checked_mul_i64(B, a, r)
                same_sign == (a >= 0) = (r >= 0)
            IN  Ret(B, p.ub,
                    IF p.overflow
                    THEN Val(IF same_sign THEN MAX(T) ELSE MIN(T))
                    ELSE Val(p.result))
       ELSE LET p == checked_mul_u64(B, a, r)
            IN  Ret(B, p.ub, IF p.overflow THEN Val(MAX(T)) ELSE Val(p.result))
  ELSE SaturatingWide(B, T, a * r)

\* `static_cast<underlying_type>(<expression over unsigned_type>)` for the
\* exact value e of the expression.
Wrapping(B, T, e) ==
  LET n == Native(UnsignedT(T), IntBits(T), e)
  IN  Ret(B, n.ub, Val(Cast(U(T), n.v)))

wrapping_add(B, T, a, r) ==
  Wrapping(B, T, Cast(UnsignedT(T), a) + Cast(UnsignedT(T), r))

wrapping_sub(B, T, a, r) ==
  Wrapping(B, T, Cast(UnsignedT(T), a) - Cast(UnsignedT(T), r))

wrapping_mul(B, T, a, r) ==
  Wrapping(B, T, Cast(UnsignedT(T), a) * Cast(UnsignedT(T), r))

wrapping_neg(B, T, a) == Wrapping(B, T, -Cast(UnsignedT(T), a))

OverflowingPrim(B, p) == Ret(B, p.ub, Pair(p.result, p.overflow))

\* `return {wrapping_op(rhs), overflow};`
OverflowingWide(B, T, e, wrapped) ==
  LET w == Wide(T, e)
      overflow == BelowMin(T, w.result) \/ AboveMax(T, w.result)
  IN  IF wrapped = Trap THEN Trap
      ELSE Ret(B, w.ub, Pair(wrapped.v, overflow))

overflowing_add(B, T, a, r) ==
  IF Intrinsic(T)
  THEN IF T.sg THEN OverflowingPrim(B, checked_add_i64(B, a, r))
               ELSE OverflowingPrim(B, checked_add_u64(B, a, r))
  ELSE OverflowingWide(B, T, a + r, wrapping_add(B, T, a, r))

overflowing_sub(B, T, a, r) ==
  IF Intrinsic(T)
  THEN IF T.sg THEN OverflowingPrim(B, checked_sub_i64(B, a, r))
               ELSE OverflowingPrim(B, checked_sub_u64(B, a, r))
  ELSE OverflowingWide(B, T, a - r, wrapping_sub(B, T, a, r))

overflowing_mul(B, T, a, r) ==
  IF Intrinsic(T)
  THEN IF T.sg THEN OverflowingPrim(B, checked_mul_i64(B, a, r))
               ELSE OverflowingPrim(B, checked_mul_u64(B, a, r))
  ELSE OverflowingWide(B, T, a * r, wrapping_mul(B, T, a, r))

(***************************************************************************)
(* SafeInt: bitwise operators and bit queries                              *)
(***************************************************************************)

\* a | b on the two's-complement pattern: the bits of a ^ b and those of
\* a & b are disjoint.
BitOr(t, a, b) == Cast(t, BitXor(t, a, b) + BitAnd(t, a, b))

\* The operands of a native bitwise operator are promoted; the result is
\* cast back to underlying_type.
op_not(T, a) ==
  Val(Cast(U(T), Cast(Promote(U(T), IntBits(T)), -a - 1)))
op_and(T, a, b) ==
  Val(Cast(U(T), BitAnd(Promote(U(T), IntBits(T)), a, b)))
op_or(T, a, b) ==
  Val(Cast(U(T), BitOr(Promote(U(T), IntBits(T)), a, b)))
op_xor(T, a, b) ==
  Val(Cast(U(T), BitXor(Promote(U(T), IntBits(T)), a, b)))
\* a << shift is a * 2^shift modulo 2^N of the promoted type, and a >> shift
\* is the floor of a / 2^shift (an arithmetic shift for a signed type), for
\* 0 <= shift < N.
op_shl(T, a, shift) ==
  Val(Cast(U(T), Cast(Promote(U(T), IntBits(T)), a * Pow2(shift))))
\* operator>> shifting the unsigned pattern instead (a logical shift).
op_shr_logical(T, a, shift) ==
  Val(Cast(U(T), Cast(UnsignedT(T), a) \div Pow2(shift)))
op_shr(T, a, shift) ==
  Val(Cast(U(T), Cast(Promote(U(T), IntBits(T)), a \div Pow2(shift))))

\* std::popcount, std::countl_zero and std::countr_zero of the unsigned
\* value n of a type of `bits` bits.
RECURSIVE popcount(_)
popcount(n) == IF n = 0 THEN 0 ELSE (n % 2) + popcount(n \div 2)

RECURSIVE countl_zero(_, _)
countl_zero(bits, n) ==
  IF bits = 0 \/ n >= Pow2(bits - 1) THEN 0
  ELSE 1 + countl_zero(bits - 1, n)

RECURSIVE countr_zero(_, _)
countr_zero(bits, n) ==
  IF bits = 0 \/ n % 2 = 1 THEN 0
  ELSE 1 + countr_zero(bits - 1, n \div 2)

\* count_ones returning the population count of the promoted value.
count_ones_promoted(T, v) ==
  Val(popcount(Cast(IntT(IntBits(T), FALSE), v)))
\* Bits, the template argument, is the width of underlying_type.
count_ones(T, v) == Val(popcount(Cast(UnsignedT(T), v)))
count_zeros(T, v) == Val(U(T).bits - count_ones(T, v).v)
leading_zeros(T, v) ==
  Val(countl_zero(UnsignedT(T).bits, Cast(UnsignedT(T), v)))
trailing_zeros(T, v) ==
  Val(countr_zero(UnsignedT(T).bits, Cast(UnsignedT(T), v)))

(***************************************************************************)
(* The state machine                                                       *)
(***************************************************************************)

\* The values within Edge of p.
Around(p) == (p - Edge) .. (p + Edge)

\* The stored values the operands are drawn from: those next to MIN, to
\* MAX, to zero and to the square root of the range.
Vals(T) ==
  LET h == Pow2(U(T).bits \div 2)
  IN  { v \in Around(MIN(T)) \cup Around(MAX(T)) \cup Around(0) \cup {h, -h} :
          InRange(U(T), v) }

\* The values from() is called with, of source type S: those next to the
\* bounds of S, of the alias and of its wider type, and one period of the
\* wider type away from them.
SrcVals(T, S) ==
  LET w == Pow2(W(T).bits)
      pts == {0, MIN(T), MAX(T), TMin(S), TMax(S), TMin(W(T)), TMax(W(T)),
              w, -w, w + MAX(T), MIN(T) - w}
  IN  { v \in UNION { Around(p) : p \in pts } : InRange(S, v) }

\* Explicit construction stores the supplied values verbatim.
Init ==
  /\ build \in Builds
  /\ ty \in Aliases(build)
  /\ x \in Vals(ty)
  /\ y \in Vals(ty)
  /\ op = "init"
  /\ arg = NoArg
  /\ res = NoRes

\* A const member function: it returns r and changes neither object.
Call(name, r) ==
  /\ op' = name
  /\ res' = r
  /\ arg' = NoArg
  /\ UNCHANGED <<build, ty, x, y>>

\* A const member function called with the argument a: it returns r and
\* changes no object.
CallWith(name, a, r) ==
  /\ op' = name
  /\ arg' = a
  /\ res' = r
  /\ UNCHANGED <<build, ty, x, y>>

\* One action per member function, on the receiver x and the operand y;
\* checked_neg and checked_abs exist for the signed aliases only
\* (requires IsSigned).
Next ==
  \/ Call("checked_add", checked_add(build, ty, x, y))
  \/ Call("checked_sub", checked_sub(build, ty, x, y))
  \/ Call("checked_mul", checked_mul(build, ty, x, y))
  \/ Call("checked_div", checked_div(build, ty, x, y))
  \/ Call("checked_rem", checked_rem(build, ty, x, y))
  \/ ty.sg /\ Call("checked_neg", checked_neg(build, ty, x))
  \/ ty.sg /\ Call("checked_abs", checked_abs(build, ty, x))
  \/ Call("saturating_add", saturating_add(build, ty, x, y))
  \/ Call("saturating_sub", saturating_sub(build, ty, x, y))
  \/ Call("saturating_mul", saturating_mul(build, ty, x, y))
  \/ Call("wrapping_add", wrapping_add(build, ty, x, y))
  \/ Call("wrapping_sub", wrapping_sub(build, ty, x, y))
  \/ Call("wrapping_mul", wrapping_mul(build, ty, x, y))
  \/ Call("wrapping_neg", wrapping_neg(build, ty, x))
  \/ Call("overflowing_add", overflowing_add(build, ty, x, y))
  \/ Call("overflowing_sub", overflowing_sub(build, ty, x, y))
  \/ Call("overflowing_mul", overflowing_mul(build, ty, x, y))

Spec == Init /\ [][Next]_vars

\* The static factories, called on values of any native integer type; the
\* objects are default-constructed.
InitFrom ==
  /\ build \in Builds
  /\ ty \in Aliases(build)
  /\ x = 0
  /\ y = 0
  /\ op = "init"
  /\ arg = NoArg
  /\ res = NoRes

NextFrom ==
  \/ \E S \in SrcTypes(ty) : \E value \in SrcVals(ty, S) :
       CallWith("from", [t |-> S, v |-> value], from(ty, S, value))
  \/ \E S \in SrcTypes(ty) : \E value \in SrcVals(ty, S) :
       CallWith("saturating_from", [t |-> S, v |-> value],
                saturating_from(ty, S, value))

SpecFrom == InitFrom /\ [][NextFrom]_vars

\* The values of the native type t next to zero and to the bounds of every
\* native type.
NearBounds(t) ==
  LET pts == {0} \cup { TMin(n) : n \in NativeTypes }
                 \cup { TMax(n) : n \in NativeTypes }
  IN  { v \in UNION { Around(p) : p \in pts } : InRange(t, v) }

\* The conversions, called on a constructed object.
InitConv ==
  /\ build \in Builds
  /\ ty \in Aliases(build)
  /\ x \in NearBounds(underlying_type(ty))
  /\ y = 0
  /\ op = "init"
  /\ arg = NoArg
  /\ res = NoRes

\* widen exists for the targets that satisfy its requires-clause;
\* `v.widen<Target>().narrow<Source>()` calls narrow on the value that
\* widen returned.
NextConv ==
  \/ \E T \in NativeTypes : CallWith("to", [t |-> T], to(ty, T, x))
  \/ \E T \in NativeTypes : CallWith("as", [t |-> T], as(ty, T, x))
  \/ \E Target \in Aliases(build) :
       /\ widen_accepts(ty, Target)
       /\ CallWith("widen", [t |-> Target], widen(ty, Target, x))
  \/ \E Target \in Aliases(build) :
       CallWith("narrow", [t |-> Target], narrow(ty, Target, x))
  \/ \E Target \in Aliases(build) :
       CallWith("cast", [t |-> Target], cast(ty, Target, x))
  \/ /\ op = "widen"
     /\ CallWith("widen_narrow", arg, narrow(arg.t, ty, res.v))

SpecConv == InitConv /\ [][NextConv]_vars

\* The overflow primitives, called directly on two 64-bit operands of the
\* signedness of ty.
PrimVals(T) ==
  LET q == Pow2(U(T).bits \div 2) \div 2
  IN  Vals(T) \cup { v \in Around(q) \cup Around(-q) : InRange(U(T), v) }

InitPrim ==
  /\ build \in Builds
  /\ ty \in {i64(build), u64(build)}
  /\ x \in PrimVals(ty)
  /\ y \in PrimVals(ty)
  /\ op = "init"
  /\ arg = NoArg
  /\ res = NoRes

\* The primitive's out-parameter and return value are reported as the pair
\* overflowing_* makes of them.
NextPrim ==
  \/ /\ ty.sg
     /\ Call("checked_add_i64",
             OverflowingPrim(build, checked_add_i64(build, x, y)))
  \/ /\ ty.sg
     /\ Call("checked_sub_i64",
             OverflowingPrim(build, checked_sub_i64(build, x, y)))
  \/ /\ ty.sg
     /\ Call("checked_mul_i64",
             OverflowingPrim(build, checked_mul_i64(build, x, y)))
  \/ /\ ~ty.sg
     /\ Call("checked_add_u64",
             OverflowingPrim(build, checked_add_u64(build, x, y)))
  \/ /\ ~ty.sg
     /\ Call("checked_sub_u64",
             OverflowingPrim(build, checked_sub_u64(build, x, y)))
  \/ /\ ~ty.sg
     /\ Call("checked_mul_u64",
             OverflowingPrim(build, checked_mul_u64(build, x, y)))

SpecPrim == InitPrim /\ [][NextPrim]_vars

\* The literal suffixes of the alias ty, applied to a literal of the source
\* text; no object exists beforehand.
Suffix(name, checked) ==
  \E value \in NearBounds(ULongLong) :
    CallWith(name, [v |-> value], literal(ty, checked, value))

\* _i8, _u8, _i16, _i32, _u32, _i64: range test; _u64: none.
\* _isize: isize is i64 on a 64-bit platform and i32 on a 32-bit platform.
\* _usize: usize is u64 or u32; the range test is compiled only when
\* UINTPTR_MAX != UINT64_MAX.
NextLit ==
  \/ Suffix("literal", ty.name # "u64")
  \/ ty.sg /\ ty.bits \in {32, 64} /\ Suffix("literal_isize", TRUE)
  \/ ~ty.sg /\ ty.bits \in {32, 64} /\ Suffix("literal_usize", ty.bits # 64)

SpecLit == InitFrom /\ [][NextLit]_vars

\* A compound assignment: it stores v in the receiver and returns *this.
Assign(name, a, v) ==
  /\ op' = name
  /\ arg' = a
  /\ x' = v
  /\ res' = Val(v)
  /\ UNCHANGED <<build, ty, y>>

\* The shift amounts: the callers keep them within [0, Bits).
Shifts(T) == {0, 1, U(T).bits - 1}

\* Objects of the aliases of the widths `widths`, constructed from the
\* values next to the bounds.  The bitwise operators, the comparisons and
\* the queries compile to the same code in every build.
InitBits(widths) ==
  /\ build \in { b \in Builds : b.builtin /\ b.int128 /\ b.ub = "wraps" }
  /\ ty \in { T \in Aliases(build) : T.bits \in widths }
  /\ x \in Vals(ty)
  /\ y \in Vals(ty)
  /\ op = "init"
  /\ arg = NoArg
  /\ res = NoRes

\* The bitwise operators, their compound assignments, the comparisons and
\* the queries, on the receiver x and the operand y.
NextBits ==
  \/ Call("operator~", op_not(ty, x))
  \/ Call("operator&", op_and(ty, x, y))
  \/ Call("operator|", op_or(ty, x, y))
  \/ Call("operator^", op_xor(ty, x, y))
  \/ \E shift \in Shifts(ty) :
       CallWith("operator<<", [shift |-> shift], op_shl(ty, x, shift))
  \/ \E shift \in Shifts(ty) :
       CallWith("operator>>", [shift |-> shift], op_shr(ty, x, shift))
  \* m_value op= rhs.m_value: the native operator on the promoted operands,
  \* converted back to underlying_type by the assignment
  \/ Assign("operator&=", NoArg,
            Cast(U(ty), BitAnd(Promote(U(ty), IntBits(ty)), x, y)))
  \/ Assign("operator|=", NoArg,
            Cast(U(ty), BitOr(Promote(U(ty), IntBits(ty)), x, y)))
  \/ Assign("operator^=", NoArg,
            Cast(U(ty), BitXor(Promote(U(ty), IntBits(ty)), x, y)))
  \/ \E shift \in Shifts(ty) :
       Assign("operator<<=", [shift |-> shift],
              Cast(U(ty), Cast(Promote(U(ty), IntBits(ty)), x * Pow2(shift))))
  \/ \E shift \in Shifts(ty) :
       Assign("operator>>=", [shift |-> shift],
              Cast(U(ty), Cast(Promote(U(ty), IntBits(ty)), x \div Pow2(shift))))
  \* the defaulted comparisons compare m_value
  \/ Call("operator==", Val(x = y))
  \/ Call("operator<=>", Val(IF x < y THEN -1 ELSE IF x > y THEN 1 ELSE 0))
  \/ Call("get", Val(x))
  \/ Call("is_positive", Val(x > 0))
  \/ ty.sg /\ Call("is_negative", Val(x < 0))
  \/ Call("is_zero", Val(x = 0))
  \/ ty.sg /\ Call("signum", Val(IF x > 0 THEN 1 ELSE IF x < 0 THEN -1 ELSE 0))
  \/ Call("count_ones", count_ones(ty, x))
  \/ Call("count_zeros", count_zeros(ty, x))
  \/ Call("leading_zeros", leading_zeros(ty, x))
  \/ Call("trailing_zeros", trailing_zeros(ty, x))

SpecBits == InitBits({8, 16, 32, 64}) /\ [][NextBits]_vars

\* Every member function of SafeInt, in any order, on the narrow aliases.
NextFrame == Next \/ NextConv \/ NextBits

SpecFrame == InitBits({8, 16}) /\ [][NextFrame]_vars

(***************************************************************************)
(* Optional<T> (optional.hpp, reproduced in u64/u64doc.md) and             *)
(* Result<T, E> (result/result.hpp)                                        *)
(***************************************************************************)

Payloads == 0 .. MaxPayload

\* Result<T, E> holding index 0 (Ok) or index 1 (Err) of its variant;
\* Result<void, E> in its Ok state holds nothing.
Ok(v) == [tag |-> "Ok", v |-> v]
Err(e) == [tag |-> "Err", v |-> e]
OkVoid == [tag |-> "Ok"]

\* A function returning void has returned.
Void == [tag |-> "Void"]

Optional == [name |-> "Optional"]
Result == [name |-> "Result"]
ResultVoid == [name |-> "ResultVoid"]

\* The objects of each class.
Objects(C) ==
  CASE C = Optional -> {None} \cup { Some(v) : v \in Payloads }
    [] C = Result -> { Ok(v) : v \in Payloads } \cup { Err(e) : e \in Payloads }
    [] OTHER -> {OkVoid} \cup { Err(e) : e \in Payloads }

\* The callables passed to unwrap_or_else: f(const E&) -> T, and for
\* Optional a callable without parameters, given by the value it returns.
Funs == [Payloads -> Payloads]

\* What a member function did: the value it returned (or Panic) and the
\* arguments of the invocations of the callable it was given, in order.
Did(ret, calls) == [ret |-> ret, calls |-> calls]

has_value(o) == o.tag = "Some"
is_ok(r) == r.tag = "Ok"
is_err(r) == r.tag = "Err"

Optional_expect(o) == IF ~has_value(o) THEN Panic ELSE Val(o.v)
Optional_unwrap(o) == Optional_expect(o)
Optional_unwrap_or(o, default_value) ==
  Val(IF has_value(o) THEN o.v ELSE default_value)
Optional_unwrap_or_else(o, f) ==
  IF has_value(o) THEN Did(Val(o.v), <<>>) ELSE Did(Val(f), << <<>> >>)

Result_unwrap(r) == IF is_err(r) THEN Panic ELSE Val(r.v)
Result_expect(r) == IF is_err(r) THEN Panic ELSE Val(r.v)
\* unwrap_err without the is_ok test.
Result_unwrap_err_nocheck(r) == Val(r.v)
Result_unwrap_err(r) == IF is_ok(r) THEN Panic ELSE Val(r.v)
Result_expect_err(r) == IF is_ok(r) THEN Panic ELSE Val(r.v)
Result_unwrap_or(r, default_value) ==
  IF is_ok(r) THEN Val(r.v) ELSE Val(default_value)
Result_unwrap_or_else(r, f) ==
  IF is_ok(r) THEN Did(Val(r.v), <<>>) ELSE Did(Val(f[r.v]), << <<r.v>> >>)

ResultVoid_unwrap(r) == IF is_err(r) THEN Panic ELSE Void
ResultVoid_expect(r) == IF is_err(r) THEN Panic ELSE Void
ResultVoid_unwrap_err(r) == IF is_ok(r) THEN Panic ELSE Val(r.v)

\* operator bool, is_some and is_none each read has_value().
Optional_bool(o) == has_value(o)
is_some(o) == has_value(o)
is_none(o) == ~has_value(o)

\* map(f): f is invoked on the held value only.
Optional_map(o, f) ==
  IF has_value(o) THEN Did(Some(f[o.v]), << <<o.v>> >>) ELSE Did(None, <<>>)
\* and_then returning `other` whatever the receiver holds.
Optional_and_then_always(o, other) == other
\* and_then and or_else of Optional take an Optional, not a callable.
Optional_and_then(o, other) == IF has_value(o) THEN other ELSE None
Optional_or_else(o, other) == IF has_value(o) THEN o ELSE other
\* The defaulted operator== compares the two std::optional members: both
\* empty, or both engaged with equal values.
Optional_eq(o, other) ==
  IF has_value(o) # has_value(other) THEN FALSE
  ELSE IF ~has_value(o) THEN TRUE
  ELSE o.v = other.v

Result_bool(r) == is_ok(r)

\* map applying f to the payload of either variant.
Result_map_both(r, f) ==
  Did([tag |-> r.tag, v |-> f[r.v]], << <<r.v>> >>)
Result_map(r, f) ==
  IF is_ok(r) THEN Did(Ok(f[r.v]), << <<r.v>> >>) ELSE Did(Err(r.v), <<>>)
Result_map_err(r, f) ==
  IF is_err(r) THEN Did(Err(f[r.v]), << <<r.v>> >>) ELSE Did(Ok(r.v), <<>>)
Result_and_result(r, other) == IF is_ok(r) THEN other ELSE Err(r.v)
\* and_then without the is_ok test.
Result_and_then_eager(r, f) == Did(f[r.v], << <<r.v>> >>)
Result_and_then(r, f) ==
  IF is_ok(r) THEN Did(f[r.v], << <<r.v>> >>) ELSE Did(Err(r.v), <<>>)
Result_or_result(r, other) == IF is_ok(r) THEN Ok(r.v) ELSE other
Result_or_else(r, f) ==
  IF is_ok(r) THEN Did(Ok(r.v), <<>>) ELSE Did(f[r.v], << <<r.v>> >>)
Result_ok(r) == IF is_ok(r) THEN Some(r.v) ELSE None
\* err() reading the Ok alternative.
Result_err_swapped(r) == IF is_ok(r) THEN Some(r.v) ELSE None
Result_err(r) == IF is_err(r) THEN Some(r.v) ELSE None
\* operator== comparing the payloads only.
Result_eq_payload(r, other) == r.v = other.v
\* operator== compares the two variants: the same index, and equal
\* alternatives at that index.
Result_eq(r, other) ==
  IF is_ok(r) # is_ok(other) THEN FALSE ELSE r.v = other.v

\* The callables passed to map and map_err, and those passed to and_then
\* and or_else, which return a Result.
Maps == { [v \in Payloads |-> (v + k) % (MaxPayload + 1)] : k \in Payloads }
ResultFuns ==
  { [v \in Payloads |->
       IF v < k THEN Ok((v + d) % (MaxPayload + 1))
                ELSE Err((v + d) % (MaxPayload + 1))] :
      k \in 0 .. (MaxPayload + 1), d \in Payloads }

InitBox ==
  /\ build \in Builds
  /\ ty \in {Optional, Result, ResultVoid}
  /\ x \in Objects(ty)
  /\ y = 0
  /\ op = "init"
  /\ arg = NoArg
  /\ res = NoRes

\* The receiver of a combinator or of a query: the object the previous call
\* of a chain returned, or x.
Self ==
  IF \/ ty = Optional /\ res.tag \in {"Some", "None"}
     \/ ty = Result /\ res.tag \in {"Ok", "Err"}
  THEN res
  ELSE x

NextBox ==
  \* extraction, on x
  \/ CallWith("unwrap", NoArg,
              CASE ty = Optional -> Optional_unwrap(x)
                [] ty = Result -> Result_unwrap(x)
                [] OTHER -> ResultVoid_unwrap(x))
  \/ CallWith("expect", NoArg,
              CASE ty = Optional -> Optional_expect(x)
                [] ty = Result -> Result_expect(x)
                [] OTHER -> ResultVoid_expect(x))
  \/ /\ ty \in {Result, ResultVoid}
     /\ CallWith("unwrap_err", NoArg,
                 IF ty = Result THEN Result_unwrap_err(x)
                                ELSE ResultVoid_unwrap_err(x))
  \/ ty = Result /\ CallWith("expect_err", NoArg, Result_expect_err(x))
  \/ /\ ty \in {Optional, Result}
     /\ \E d \in Payloads :
          CallWith("unwrap_or", [d |-> d],
                   IF ty = Optional THEN Optional_unwrap_or(x, d)
                                    ELSE Result_unwrap_or(x, d))
  \/ /\ ty = Optional
     /\ \E f \in Payloads :
          LET r == Optional_unwrap_or_else(x, f)
          IN  CallWith("unwrap_or_else", [f |-> f, calls |-> r.calls], r.ret)
  \/ /\ ty = Result
     /\ \E f \in Funs :
          LET r == Result_unwrap_or_else(x, f)
          IN  CallWith("unwrap_or_else", [f |-> f, calls |-> r.calls], r.ret)
  \* Optional<T>, on Self
  \/ /\ ty = Optional
     /\ CallWith("operator bool", [self |-> Self], Val(Optional_bool(Self)))
  \/ /\ ty = Optional
     /\ CallWith("is_some", [self |-> Self], Val(is_some(Self)))
  \/ /\ ty = Optional
     /\ CallWith("is_none", [self |-> Self], Val(is_none(Self)))
  \/ /\ ty = Optional
     /\ \E f \in Maps :
          LET r == Optional_map(Self, f)
          IN  CallWith("map", [self |-> Self, f |-> f, calls |-> r.calls],
                       r.ret)
  \/ /\ ty = Optional
     /\ \E o \in Objects(Optional) :
          CallWith("and_then", [self |-> Self, o |-> o],
                   Optional_and_then(Self, o))
  \/ /\ ty = Optional
     /\ \E o \in Objects(Optional) :
          CallWith("or_else", [self |-> Self, o |-> o],
                   Optional_or_else(Self, o))
  \/ /\ ty = Optional
     /\ \E o \in Objects(Optional) :
          CallWith("operator==", [self |-> Self, o |-> o],
                   Val(Optional_eq(Self, o)))
  \* Result<T, E>, on Self
  \/ /\ ty = Result
     /\ CallWith("operator bool", [self |-> Self], Val(Result_bool(Self)))
  \/ /\ ty = Result
     /\ CallWith("is_ok", [self |-> Self], Val(is_ok(Self)))
  \/ /\ ty = Result
     /\ CallWith("is_err", [self |-> Self], Val(is_err(Self)))
  \/ /\ ty = Result
     /\ \E f \in Maps :
          LET r == Result_map(Self, f)
          IN  CallWith("map", [self |-> Self, f |-> f, calls |-> r.calls],
                       r.ret)
  \/ /\ ty = Result
     /\ \E f \in Maps :
          LET r == Result_map_err(Self, f)
          IN  CallWith("map_err", [self |-> Self, f |-> f, calls |-> r.calls],
                       r.ret)
  \/ /\ ty = Result
     /\ \E o \in Objects(Result) :
          CallWith("and_result", [self |-> Self, o |-> o],
                   Result_and_result(Self, o))
  \/ /\ ty = Result
     /\ \E f \in ResultFuns :
          LET r == Result_and_then(Self, f)
          IN  CallWith("and_then", [self |-> Self, f |-> f, calls |-> r.calls],
                       r.ret)
  \/ /\ ty = Result
     /\ \E o \in Objects(Result) :
          CallWith("or_result", [self |-> Self, o |-> o],
                   Result_or_result(Self, o))
  \/ /\ ty = Result
     /\ \E f \in ResultFuns :
          LET r == Result_or_else(Self, f)
          IN  CallWith("or_else", [self |-> Self, f |-> f, calls |-> r.calls],
                       r.ret)
  \/ /\ ty = Result
     /\ CallWith("ok", [self |-> Self], Result_ok(Self))
  \/ /\ ty = Result
     /\ CallWith("err", [self |-> Self], Result_err(Self))
  \/ /\ ty = Result
     /\ \E o \in Objects(Result) :
          CallWith("operator==", [self |-> Self, o |-> o],
                   Val(Result_eq(Self, o)))

SpecBox == InitBox /\ [][NextBox]_vars

(***************************************************************************)
(* Properties                                                              *)
(***************************************************************************)

\* The exact mathematical result of the add, sub or mul operation `name`.
Exact(name, a, b) ==
  CASE name \in {"checked_add", "saturating_add", "wrapping_add",
                 "overflowing_add"} -> a + b
    [] name \in {"checked_sub", "saturating_sub", "wrapping_sub",
                 "overflowing_sub"} -> a - b
    [] OTHER -> a * b

\* e clamped to [MIN, MAX]
Clamp(T, e) == IF e < MIN(T) THEN MIN(T) ELSE IF e > MAX(T) THEN MAX(T) ELSE e

\* C1: from(x) is Some(x) when MIN <= x <= MAX and None for every other x,
\* whatever the native type of x.
C1_FromIffInRange ==
  op = "from" =>
    res = IF InRange(U(ty), arg.v) THEN Some(arg.v) ELSE None

\* C2: saturating_from(x) is MIN if x < MIN, MAX if x > MAX, x otherwise,
\* whatever the native type of x.
C2_SaturatingFromClamps ==
  op = "saturating_from" => res = Val(Clamp(ty, arg.v))

\* C3: checked_add, checked_sub and checked_mul return None exactly when the
\* exact result is outside [MIN, MAX], and Some of the exact result
\* otherwise, on the wider-type path and on the W = U path.
C3_CheckedIsExact ==
  op \in {"checked_add", "checked_sub", "checked_mul"} =>
    res = IF InRange(U(ty), Exact(op, x, y))
          THEN Some(Exact(op, x, y))
          ELSE None

\* C4: for an unsigned type, a.saturating_sub(b) is 0 whenever b > a and
\* a - b otherwise.
C4_UnsignedSaturatingSub ==
  (op = "saturating_sub" /\ ~ty.sg) =>
    res = Val(IF y > x THEN MIN(ty) ELSE x - y)

\* C5: for a signed type, a.saturating_sub(b) is the exact a - b clamped to
\* [MIN, MAX], for zero, positive and negative a alike.
C5_SignedSaturatingSub ==
  (op = "saturating_sub" /\ ty.sg) => res = Val(Clamp(ty, x - y))

\* C6: saturating_add and saturating_mul return the exact result clamped to
\* [MIN, MAX], for signed and unsigned types on both paths.
C6_SaturatingAddMulClamp ==
  op \in {"saturating_add", "saturating_mul"} =>
    res = Val(Clamp(ty, Exact(op, x, y)))

\* C7: overflowing_op(b).first is wrapping_op(b) and overflowing_op(b).second
\* is checked_op(b).is_none(), for add, sub and mul.
C7_OverflowingAgrees ==
  /\ op = "overflowing_add" =>
       /\ res.tag = "Pair"
       /\ Val(res.first) = wrapping_add(build, ty, x, y)
       /\ res.second = (checked_add(build, ty, x, y) = None)
  /\ op = "overflowing_sub" =>
       /\ res.tag = "Pair"
       /\ Val(res.first) = wrapping_sub(build, ty, x, y)
       /\ res.second = (checked_sub(build, ty, x, y) = None)
  /\ op = "overflowing_mul" =>
       /\ res.tag = "Pair"
       /\ Val(res.first) = wrapping_mul(build, ty, x, y)
       /\ res.second = (checked_mul(build, ty, x, y) = None)

\* C8: wrapping_add, wrapping_sub and wrapping_mul return the value of
\* [MIN, MAX] congruent to the exact result modulo 2^Bits, and wrapping_neg
\* the value congruent to -v, so that wrapping_neg(MIN) = MIN when signed.
C8_WrappingIsModular ==
  /\ op \in {"wrapping_add", "wrapping_sub", "wrapping_mul"} =>
       /\ res.tag = "Val"
       /\ InRange(U(ty), res.v)
       /\ (res.v - Exact(op, x, y)) % Pow2(U(ty).bits) = 0
  /\ op = "wrapping_neg" =>
       /\ res.tag = "Val"
       /\ InRange(U(ty), res.v)
       /\ (res.v + x) % Pow2(U(ty).bits) = 0
       /\ (ty.sg /\ x = MIN(ty)) => res.v = MIN(ty)

\* C9: checked_div(v, r) is None exactly when r = 0 or the type is signed
\* and v = MIN and r = -1; otherwise it is Some of v / r truncated toward
\* zero.
C9_CheckedDiv ==
  op = "checked_div" =>
    IF y = 0 \/ (ty.sg /\ x = MIN(ty) /\ y = -1)
    THEN res = None
    ELSE /\ res.tag = "Some"
         /\ Abs(res.v) * Abs(y) <= Abs(x)
         /\ Abs(x) < (Abs(res.v) + 1) * Abs(y)
         /\ (res.v # 0 => (res.v > 0) = ((x > 0) = (y > 0)))

\* checked_div has refused MIN / -1 of a signed type.
C9_Witness ==
  /\ op = "checked_div"
  /\ ty.sg
  /\ x = MIN(ty)
  /\ y = -1
  /\ res = None

\* C10: for a signed type, checked_rem(a, b) is None exactly when b = 0 (and
\* Some otherwise), and with checked_div(a, b) = Some(q) and
\* checked_rem(a, b) = Some(r): b*q + r = a, |r| < |b|, and r is zero or has
\* the sign of a.
C10_SignedRem ==
  (op = "checked_rem" /\ ty.sg) =>
    /\ (res = None) = (y = 0)
    /\ y # 0 => res.tag = "Some"
    /\ LET d == checked_div(build, ty, x, y)
       IN  (d.tag = "Some" /\ res.tag = "Some") =>
             /\ y * d.v + res.v = x
             /\ Abs(res.v) < Abs(y)
             /\ (res.v = 0 \/ (res.v < 0) = (x < 0))

\* C11: for a signed type, checked_neg(v) and checked_abs(v) are None
\* exactly when v = MIN; for every other v they are Some(-v) and Some(|v|).
C11_CheckedNegAbs ==
  /\ op = "checked_neg" =>
       res = IF x = MIN(ty) THEN None ELSE Some(-x)
  /\ op = "checked_abs" =>
       res = IF x = MIN(ty) THEN None ELSE Some(Abs(x))

\* checked_neg has refused MIN, or checked_abs has returned |v| for a
\* negative v.
C11_Witness ==
  \/ op = "checked_neg" /\ x = MIN(ty) /\ res = None
  \/ op = "checked_abs" /\ x = MIN(ty) + 1 /\ res = Some(MAX(ty))

\* C12: for every pair (Source, Target) of SafeInt types, of any signedness
\* and any relative width, v.narrow<Target>() is Some(v) exactly when
\* Target::MIN <= v <= Target::MAX, and None otherwise.
C12_NarrowIffFits ==
  op = "narrow" =>
    res = IF InRange(underlying_type(arg.t), x) THEN Some(x) ELSE None

\* C13: for a Target strictly wider than Source that widen<Target>() accepts,
\* v.widen<Target>().narrow<Source>() is Some(v).
C13_WidenNarrowRoundTrip ==
  (op = "widen_narrow" /\ arg.t.bits > ty.bits) => res = Some(x)

\* C14: widen<Target>() is accepted only when Target::BITS >= BITS and, for
\* a signed Source, Target is signed as well.
C14_WidenAccepted ==
  op = "widen" => (arg.t.bits >= ty.bits /\ (ty.sg => arg.t.sg))

\* C15: for every pair that widen<Target>() accepts, equal widths and
\* different signedness included, v.widen<Target>().get() equals v.
C15_WidenLossless ==
  op = "widen" => res = Val(x)

\* C16: v.to<T>() is Some(v) exactly when v lies in the range of the native
\* type T, and None otherwise, whatever the signedness and width of the
\* alias and of T.
C16_ToIffFits ==
  op = "to" => res = IF InRange(arg.t, x) THEN Some(x) ELSE None

\* C17: v.cast<Target>() returns the value of Target congruent to v modulo
\* 2^Target::BITS, and v.as<T>() the value of the native type T congruent
\* to v modulo 2^width(T); neither fails.
C17_CastIsModular ==
  /\ op = "cast" =>
       /\ res.tag = "Val"
       /\ InRange(underlying_type(arg.t), res.v)
       /\ (res.v - x) % Pow2(underlying_type(arg.t).bits) = 0
  /\ op = "as" =>
       /\ res.tag = "Val"
       /\ InRange(arg.t, res.v)
       /\ (res.v - x) % Pow2(arg.t.bits) = 0

\* i8(-1).cast<u8>() has returned u8::MAX.
C17_Witness ==
  /\ op = "cast"
  /\ ty = i8
  /\ x = -1
  /\ arg.t = u8
  /\ res = Val(TMax(underlying_type(u8)))

\* C18: each of the six primitives returns the wrapping result and a flag
\* that is true iff the exact result is not representable in the 64-bit
\* type, and every dispatch path returns the same pair on the same operands.
C18_PrimitivesAgree ==
  LET exact ==
        CASE op \in {"checked_add_i64", "checked_add_u64"} -> x + y
          [] op \in {"checked_sub_i64", "checked_sub_u64"} -> x - y
          [] OTHER -> x * y
      prim(B) ==
        CASE op = "checked_add_i64" -> checked_add_i64(B, x, y)
          [] op = "checked_sub_i64" -> checked_sub_i64(B, x, y)
          [] op = "checked_mul_i64" -> checked_mul_i64(B, x, y)
          [] op = "checked_add_u64" -> checked_add_u64(B, x, y)
          [] op = "checked_sub_u64" -> checked_sub_u64(B, x, y)
          [] OTHER -> checked_mul_u64(B, x, y)
  IN  op \in {"checked_add_i64", "checked_sub_i64", "checked_mul_i64",
              "checked_add_u64", "checked_sub_u64", "checked_mul_u64"} =>
        /\ res = Pair(Cast(U(ty), exact), ~InRange(U(ty), exact))
        /\ \A B \in Builds : OverflowingPrim(B, prim(B)) = res

\* C19: for every literal suffix and every non-negative literal n, the
\* suffix operator panics iff n exceeds the MAX of its type and otherwise
\* returns the SafeInt whose value is n.
C19_LiteralSuffix ==
  op \in {"literal", "literal_isize", "literal_usize"} =>
    res = IF arg.v > TMax(underlying_type(ty)) THEN Panic ELSE Val(arg.v)

\* _i8 has panicked on MAX + 1, and _u64 has accepted the largest literal.
C19_Witness ==
  \/ /\ op = "literal"
     /\ ty = i8
     /\ arg.v = TMax(underlying_type(i8)) + 1
     /\ res = Panic
  \/ /\ op = "literal"
     /\ ty.name = "u64"
     /\ arg.v = TMax(ULongLong)
     /\ res = Val(TMax(ULongLong))

\* C20: unwrap and expect return the payload of Some / Ok and panic on
\* None / Err; unwrap_err and expect_err return the payload of Err and
\* panic on Ok; unwrap_or and unwrap_or_else never panic and return the
\* payload when present, else the default, unwrap_or_else invoking f only
\* in the failure variant (for Result with the error payload).
C20_ExtractionPanics ==
  LET present == x.tag \in {"Some", "Ok"}
  IN  /\ op \in {"unwrap", "expect"} =>
           res = IF ~present THEN Panic
                 ELSE IF ty = ResultVoid THEN Void ELSE Val(x.v)
      /\ op \in {"unwrap_err", "expect_err"} =>
           res = IF x.tag = "Err" THEN Val(x.v) ELSE Panic
      /\ op = "unwrap_or" =>
           res = Val(IF present THEN x.v ELSE arg.d)
      /\ op = "unwrap_or_else" =>
           IF present THEN res = Val(x.v) /\ arg.calls = <<>>
           ELSE IF ty = Optional
                THEN res = Val(arg.f) /\ arg.calls = << <<>> >>
                ELSE res = Val(arg.f[x.v]) /\ arg.calls = << <<x.v>> >>

\* unwrap_err has panicked on an Ok value.
C20_Witness ==
  /\ op = "unwrap_err"
  /\ ty = Result
  /\ x = Ok(1)
  /\ res = Panic

\* C21: the Optional combinator laws.  Some(v).map(f) is Some(f(v)) and
\* None.map(f) is None without an invocation of f; Some(v).unwrap_or(d) is v
\* and None.unwrap_or(d) is d; and_then(o) is o on Some and None on None;
\* or_else(o) is the receiver on Some and o on None.
C21_OptionalLaws ==
  ty = Optional =>
    /\ op = "map" =>
         IF arg.self.tag = "Some"
         THEN res = Some(arg.f[arg.self.v]) /\ arg.calls = << <<arg.self.v>> >>
         ELSE res = None /\ arg.calls = <<>>
    /\ op = "unwrap_or" =>
         res = Val(IF x.tag = "Some" THEN x.v ELSE arg.d)
    /\ op = "and_then" =>
         res = IF arg.self.tag = "Some" THEN arg.o ELSE None
    /\ op = "or_else" =>
         res = IF arg.self.tag = "Some" THEN arg.self ELSE arg.o

\* map has applied a callable that changes the payload to a Some that an
\* earlier or_else produced from None.
C21_Witness ==
  /\ ty = Optional
  /\ x = None
  /\ op = "map"
  /\ arg.self = Some(1)
  /\ res = Some(2)

\* C22: Result::map applies f to the Ok payload and returns an Err receiver
\* with the same error; map_err applies f to the Err payload and returns an
\* Ok receiver with the same value; f is invoked once on the variant it
\* applies to and never on the other.
C22_ResultMap ==
  ty = Result =>
    /\ op = "map" =>
         IF arg.self.tag = "Ok"
         THEN res = Ok(arg.f[arg.self.v]) /\ arg.calls = << <<arg.self.v>> >>
         ELSE res = Err(arg.self.v) /\ arg.calls = <<>>
    /\ op = "map_err" =>
         IF arg.self.tag = "Err"
         THEN res = Err(arg.f[arg.self.v]) /\ arg.calls = << <<arg.self.v>> >>
         ELSE res = Ok(arg.self.v) /\ arg.calls = <<>>

\* map_err has transformed the error of an Err.
C22_Witness ==
  /\ ty = Result
  /\ op = "map_err"
  /\ arg.self = Err(1)
  /\ res = Err(2)
  /\ arg.calls = << <<1>> >>

\* C23: failure propagation.  Every map, and_then or and_result step of a
\* pipeline whose receiver is Err(e) returns Err(e) and invokes nothing, so
\* Err(e) survives any sequence of them; every or_else, or_result or
\* map_err step whose receiver is Ok(v) returns Ok(v) and invokes nothing;
\* on the matching variant and_then returns f(value) and or_else returns
\* f(error).
C23_FailurePropagation ==
  ty = Result =>
    /\ op \in {"map", "and_then", "and_result"} /\ arg.self.tag = "Err" =>
         res = arg.self /\ (op # "and_result" => arg.calls = <<>>)
    /\ op \in {"or_else", "or_result", "map_err"} /\ arg.self.tag = "Ok" =>
         res = arg.self /\ (op # "or_result" => arg.calls = <<>>)
    /\ op = "and_then" /\ arg.self.tag = "Ok" =>
         res = arg.f[arg.self.v] /\ arg.calls = << <<arg.self.v>> >>
    /\ op = "or_else" /\ arg.self.tag = "Err" =>
         res = arg.f[arg.self.v] /\ arg.calls = << <<arg.self.v>> >>

\* A pipeline that started from Ok(0) failed in an earlier step with
\* Err(1), and the and_then step after it has passed Err(1) on without
\* invoking its callable.
C23_Witness ==
  /\ ty = Result
  /\ x = Ok(0)
  /\ op = "and_then"
  /\ arg.self = Err(1)
  /\ res = Err(1)
  /\ arg.calls = <<>>

\* C24: ok() is Some(v) on Ok(v) and None on Err(e); err() is None on Ok(v)
\* and Some(e) on Err(e).
C24_OkErrConversion ==
  ty = Result =>
    /\ op = "ok" =>
         res = IF arg.self.tag = "Ok" THEN Some(arg.self.v) ELSE None
    /\ op = "err" =>
         res = IF arg.self.tag = "Err" THEN Some(arg.self.v) ELSE None

\* err() has returned the error of an Err.
C24_Witness ==
  /\ ty = Result
  /\ op = "err"
  /\ arg.self = Err(2)
  /\ res = Some(2)

\* C25: exactly one shape and joint equality.  is_some and is_none, is_ok
\* and is_err, are complementary and the boolean conversion equals is_some
\* / is_ok; two Optionals are equal iff both are None or both are Some with
\* equal payloads; two Results are equal iff they hold the same variant
\* with equal payloads, so Ok(x) never equals Err(x).
C25_ShapeAndEquality ==
  /\ ty = Optional /\ op \in {"is_some", "is_none", "operator bool"} =>
       /\ res = Val((arg.self.tag = "Some") = (op # "is_none"))
       /\ is_some(arg.self) # is_none(arg.self)
       /\ Optional_bool(arg.self) = is_some(arg.self)
  /\ ty = Result /\ op \in {"is_ok", "is_err", "operator bool"} =>
       /\ res = Val((arg.self.tag = "Ok") = (op # "is_err"))
       /\ is_ok(arg.self) # is_err(arg.self)
       /\ Result_bool(arg.self) = is_ok(arg.self)
  /\ ty \in {Optional, Result} /\ op = "operator==" =>
       res = Val(/\ arg.self.tag = arg.o.tag
                 /\ arg.self.tag # "None" => arg.self.v = arg.o.v)

\* An Ok and an Err with the same payload have compared unequal.
C25_Witness ==
  /\ ty = Result
  /\ op = "operator=="
  /\ arg.self = Ok(1)
  /\ arg.o = Err(1)
  /\ res = Val(FALSE)

\* C26: the bit queries.  count_ones is the number of set bits of the
\* Bits-wide pattern of the value, count_ones + count_zeros is Bits,
\* leading_zeros and trailing_zeros of zero are Bits, and count_ones of the
\* MAX of an unsigned alias is Bits.
C26_BitCounts ==
  LET Bits == U(ty).bits
      pattern == Cast(UnsignedT(ty), x)
      ones == Cardinality({ i \in 0 .. (Bits - 1) :
                              (pattern \div Pow2(i)) % 2 = 1 })
  IN  /\ op = "count_ones" => res = Val(ones)
      /\ op = "count_ones" /\ ~ty.sg /\ x = MAX(ty) => res = Val(Bits)
      /\ op = "count_zeros" =>
           /\ res.v + count_ones(ty, x).v = Bits
           /\ res.v + ones = Bits
      /\ op \in {"leading_zeros", "trailing_zeros"} /\ x = 0 =>
           res = Val(Bits)

\* count_zeros of the all-ones value of a signed alias has returned zero.
C26_Witness ==
  /\ op = "count_zeros"
  /\ ty.sg
  /\ x = -1
  /\ res = Val(0)

\* C28: only the compound assignments change an object.  A step of
\* operator&=, |=, ^=, <<= or >>= leaves in the receiver, and returns, what
\* the binary operator returns on the old receiver, and leaves the operand
\* alone; a step of any other member function changes neither.
C28_OnlyCompoundAssignmentsMutate ==
  [][/\ y' = y
     /\ CASE op' = "operator&=" -> x' = op_and(ty, x, y).v /\ res' = Val(x')
          [] op' = "operator|=" -> x' = op_or(ty, x, y).v /\ res' = Val(x')
          [] op' = "operator^=" -> x' = op_xor(ty, x, y).v /\ res' = Val(x')
          [] op' = "operator<<=" ->
               x' = op_shl(ty, x, arg'.shift).v /\ res' = Val(x')
          [] op' = "operator>>=" ->
               x' = op_shr(ty, x, arg'.shift).v /\ res' = Val(x')
          [] OTHER -> x' = x]_vars

\* A negative receiver has been shifted right in place: the sign bit was
\* copied, as by the binary operator.
C28_Witness ==
  /\ op = "operator>>="
  /\ ty = i8
  /\ arg.shift = 1
  /\ x = -2
  /\ y = 1
  /\ res = Val(-2)

\* C27: the two implementation paths are equivalent.  For a 64-bit alias,
\* each of checked_, saturating_ and overflowing_ add, sub and mul returns
\* with W = U (the overflow primitives) what it returns with the 128-bit W
\* (the wider-type comparison), on every pair of operands.
C27_PathsEquivalent ==
  LET wide == [ty EXCEPT !.wbits = 128]
      same == [ty EXCEPT !.wbits = 64]
      on(T) ==
        CASE op = "checked_add" -> checked_add(build, T, x, y)
          [] op = "checked_sub" -> checked_sub(build, T, x, y)
          [] op = "checked_mul" -> checked_mul(build, T, x, y)
          [] op = "saturating_add" -> saturating_add(build, T, x, y)
          [] op = "saturating_sub" -> saturating_sub(build, T, x, y)
          [] op = "saturating_mul" -> saturating_mul(build, T, x, y)
          [] op = "overflowing_add" -> overflowing_add(build, T, x, y)
          [] op = "overflowing_sub" -> overflowing_sub(build, T, x, y)
          [] op = "overflowing_mul" -> overflowing_mul(build, T, x, y)
  IN  (/\ build.int128
       /\ ty.bits = 64
       /\ op \in {"checked_add", "checked_sub", "checked_mul",
                  "saturating_add", "saturating_sub", "saturating_mul",
                  "overflowing_add", "overflowing_sub", "overflowing_mul"})
        => on(wide) = res /\ on(same) = res

\* C29: the overflow policies agree.  Whenever checked_add, checked_sub or
\* checked_mul returns Some(v), the saturating and the wrapping operation
\* return v and the overflowing operation returns (v, false); whenever it
\* returns None, the saturating operation returns MIN or MAX.
C29_PoliciesAgree ==
  LET sat == CASE op = "checked_add" -> saturating_add(build, ty, x, y)
               [] op = "checked_sub" -> saturating_sub(build, ty, x, y)
               [] OTHER -> saturating_mul(build, ty, x, y)
      wrap == CASE op = "checked_add" -> wrapping_add(build, ty, x, y)
                [] op = "checked_sub" -> wrapping_sub(build, ty, x, y)
                [] OTHER -> wrapping_mul(build, ty, x, y)
      ovf == CASE op = "checked_add" -> overflowing_add(build, ty, x, y)
               [] op = "checked_sub" -> overflowing_sub(build, ty, x, y)
               [] OTHER -> overflowing_mul(build, ty, x, y)
  IN  op \in {"checked_add", "checked_sub", "checked_mul"} =>
        /\ res.tag = "Some" =>
             /\ sat = Val(res.v)
             /\ wrap = Val(res.v)
             /\ ovf = Pair(res.v, FALSE)
        /\ res = None => sat \in {Val(MIN(ty)), Val(MAX(ty))}

\* C30: no intermediate overflow.  No operation evaluates a native signed
\* expression whose exact result is outside the type it is evaluated in:
\* no call ends in the undefined behaviour that a trapping build reports.
C30_NoIntermediateOverflow == res # Trap

====
